---- MODULE Spec2Model ----
(***************************************************************************)
(* Model of generate_obsidian_notes.py: the module catalog builder         *)
(* (get_internal_modules), the import resolver (parse_imports with its     *)
(* nested is_internal) and the note writer loop (write_markdown_nodes).    *)
(*                                                                         *)
(* Strings are modelled by their structure.  A dotted name "pkg.mod" is    *)
(* the sequence of its dot-separated segments <<"pkg","mod">>.  A path     *)
(* "pkg/mod.py" is the sequence of its components, each component the      *)
(* sequence of its dot-separated segments: << <<"pkg">>, <<"mod","py">> >>.*)
(* Two strings are equal iff their segment sequences are equal, and        *)
(* key.endswith("." + m) iff m's segments are a proper suffix of key's.    *)
(***************************************************************************)
EXTENDS Integers, Sequences, FiniteSets, TLC

\* ------------------------------------------------------------------ bounds
MaxFiles == 3

MaxImports == 2

MaxRuns == 2

\* --------------------------------------------------------- the file universe
RootName == <<"proj">>

VenvDir == <<"", "venv">>

F_pkg_a == << <<"pkg">>, <<"a", "py">> >>

F_pkg_sibling == << <<"pkg">>, <<"sibling", "py">> >>

F_sibling == << <<"sibling", "py">> >>

F_lib_sibling == << <<"lib">>, <<"sibling", "py">> >>

F_pkg_dot_sibling == << <<"pkg", "sibling", "py">> >>

F_pkg == << <<"pkg", "py">> >>

F_pkg_init == << <<"pkg">>, <<"__init__", "py">> >>

F_venv_sibling == << VenvDir, <<"sibling", "py">> >>

F_lib_sibling_txt == << <<"lib">>, <<"sibling", "txt">> >>

Universe ==
  { F_pkg_a, F_pkg_sibling, F_sibling, F_lib_sibling, F_pkg_dot_sibling,
    F_pkg, F_pkg_init, F_venv_sibling, F_lib_sibling_txt }

\* ------------------------------------------------------ import statements
Import(ns) == [kind |-> "Import", module |-> <<>>, level |-> 0, names |-> ns]

ImportFrom(m, l, ns) == [kind |-> "ImportFrom", module |-> m, level |-> l, names |-> ns]

Star == <<"*">>

\* the import statements pkg/a.py is written from
Statements ==
  { Import(<< <<"pkg", "sibling">> >>),
    ImportFrom(<<>>, 1, << <<"sibling">> >>),
    ImportFrom(<<"pkg">>, 0, << <<"sibling">> >>),
    ImportFrom(<<"lib">>, 1, << <<"os">>, <<"sibling">> >>) }

RECURSIVE SeqsUpTo(_, _)
SeqsUpTo(S, n) ==
  IF n = 0 THEN { <<>> }
  ELSE LET shorter == SeqsUpTo(S, n - 1)
       IN  shorter \cup { Append(q, s) : q \in shorter, s \in S }

Ok(body) == [status |-> "ok", body |-> body]

Unreadable == [status |-> "unreadable", body |-> <<>>]

BadSyntax == [status |-> "syntax", body |-> <<>>]

\* contents of pkg/a.py: every import sequence up to MaxImports, or a failure
RichTexts == { Ok(b) : b \in SeqsUpTo(Statements, MaxImports) } \cup { Unreadable, BadSyntax }

\* contents of the other files: one import statement each
FixedText(filepath) ==
  IF filepath = << <<"sibling", "py">> >> THEN Ok(<< Import(<< <<"os">> >>) >>)
  ELSE IF filepath = << <<"lib">>, <<"sibling", "py">> >>
    THEN Ok(<< ImportFrom(<<"pkg">>, 0, << Star >>) >>)
  ELSE Ok(<< Import(<< <<"sibling">> >>) >>)

\* ------------------------------------------------------- pathlib helpers
Name(filepath) == filepath[Len(filepath)]

Parent(filepath) == SubSeq(filepath, 1, Len(filepath) - 1)

\* rglob("*.py"): the file name ends with ".py"
MatchesPy(filepath) ==
  LET n == Name(filepath) IN Len(n) >= 2 /\ n[Len(n)] = "py"

\* str.startswith("__") on the file name, over the segment vocabulary
StartsWithDunder(n) == n[1] \in {"__init__", "__main__"}

HasSuffix(n) == Len(n) >= 2 /\ ~(Len(n) = 2 /\ n[1] = "")

\* Path.with_suffix(""): drop the last suffix of the final component
StripSuffix(filepath) ==
  LET n == Name(filepath)
  IN  IF HasSuffix(n)
        THEN Append(Parent(filepath), SubSeq(n, 1, Len(n) - 1))
        ELSE filepath

\* Path.with_suffix(".md")
WithMdSuffix(filepath) ==
  LET n == Name(StripSuffix(filepath))
  IN  Append(Parent(filepath), Append(n, "md"))

\* as_posix().replace("/", "."): the components' segments, concatenated
RECURSIVE Dotted(_)
Dotted(p) == IF p = <<>> THEN <<>> ELSE Head(p) \o Dotted(Tail(p))

\* faulty variant: the .venv filter is missing
Skipped_without_venv(filepath) == StartsWithDunder(Name(filepath))

\* the two `continue` filters of both loops
Skipped(filepath) ==
  \/ \E i \in DOMAIN filepath : filepath[i] = VenvDir
  \/ StartsWithDunder(Name(filepath))

\* dotted module name of a file that passed the filters
mod_name(filepath) ==
  IF Name(filepath) = <<"__init__", "py">>
    THEN IF Parent(filepath) = <<>> THEN RootName ELSE Dotted(Parent(filepath))
    ELSE Dotted(StripSuffix(filepath))

\* document identity: relative path without extension
note_id(filepath) == StripSuffix(filepath)

\* ----------------------------------------------------------- dict helpers
Keys(d) == { d[i].key : i \in DOMAIN d }

\* d[k] = v on an insertion-ordered dict
DictSet(d, k, v) ==
  IF k \in Keys(d)
    THEN [i \in DOMAIN d |-> IF d[i].key = k THEN [key |-> k, val |-> v] ELSE d[i]]
    ELSE Append(d, [key |-> k, val |-> v])

\* d.get(k, default)
DictGet(d, k, default) ==
  IF k \in Keys(d) THEN (CHOOSE e \in { d[i] : i \in DOMAIN d } : e.key = k).val
  ELSE default

\* ------------------------------------------------------------ is_internal
None == <<>>

EndsWithDot(key, module_str) ==
  /\ Len(key) > Len(module_str)
  /\ SubSeq(key, Len(key) - Len(module_str) + 1, Len(key)) = module_str

Min(S) == CHOOSE x \in S : \A y \in S : x <= y

Max(S) == CHOOSE x \in S : \A y \in S : x >= y

\* faulty variant: the last suffix match in catalog order instead of the first
is_internal_last_match(module_str, internal_modules) ==
  IF module_str \in Keys(internal_modules) THEN module_str
  ELSE LET hits == { i \in DOMAIN internal_modules :
                       EndsWithDot(internal_modules[i].key, module_str) }
       IN  IF hits = {} THEN None ELSE internal_modules[Max(hits)].key

\* faulty variant: a suffix match returns the candidate instead of the key
is_internal_returns_candidate(module_str, internal_modules) ==
  IF module_str \in Keys(internal_modules) THEN module_str
  ELSE IF \E i \in DOMAIN internal_modules :
            EndsWithDot(internal_modules[i].key, module_str)
         THEN module_str
         ELSE None

is_internal(module_str, internal_modules) ==
  IF module_str \in Keys(internal_modules) THEN module_str
  ELSE LET hits == { i \in DOMAIN internal_modules :
                       EndsWithDot(internal_modules[i].key, module_str) }
       IN  IF hits = {} THEN None ELSE internal_modules[Min(hits)].key

\* mod.split('.')[0]
TopLevel(mod) == << mod[1] >>

Deps(i, e) == [internal |-> i, external |-> e]

\* one alias of `import ...`
ImportAlias(mod, deps, internal_modules) ==
  LET internal_match == is_internal(mod, internal_modules)
  IN  IF internal_match # None
        THEN Deps(deps.internal \cup {internal_match}, deps.external)
        ELSE Deps(deps.internal, deps.external \cup {TopLevel(mod)})

\* faulty variant: the module alone is tried before the combined candidate
ImportFromAlias_module_first(mod_full, alias, deps, internal_modules) ==
  IF alias = Star THEN deps
  ELSE IF mod_full # <<>> /\ is_internal(mod_full, internal_modules) # None
         THEN Deps(deps.internal \cup {is_internal(mod_full, internal_modules)}, deps.external)
         ELSE LET m == is_internal(mod_full \o alias, internal_modules)
              IN  IF m # None THEN Deps(deps.internal \cup {m}, deps.external)
                  ELSE Deps(deps.internal,
                            deps.external \cup {TopLevel(IF mod_full # <<>> THEN mod_full ELSE alias)})

\* one alias of `from ... import ...`
ImportFromAlias(mod_full, alias, deps, internal_modules) ==
  IF alias = Star THEN deps
  ELSE LET candidate == IF mod_full # <<>> THEN mod_full \o alias ELSE alias
           internal_match == is_internal(candidate, internal_modules)
       IN  IF internal_match # None
             THEN Deps(deps.internal \cup {internal_match}, deps.external)
             ELSE IF mod_full # <<>>
                    THEN LET module_match == is_internal(mod_full, internal_modules)
                         IN  IF module_match # None
                               THEN Deps(deps.internal \cup {module_match}, deps.external)
                               ELSE Deps(deps.internal, deps.external \cup {TopLevel(mod_full)})
                    ELSE Deps(deps.internal, deps.external \cup {TopLevel(alias)})

\* the body of the `for node in ast.walk(tree)` loop for one import node
RECURSIVE VisitNode(_, _, _, _)
VisitNode(node, names, deps, internal_modules) ==
  IF names = <<>> THEN deps
  ELSE LET next == IF node.kind = "Import"
                     THEN ImportAlias(Head(names), deps, internal_modules)
                     ELSE ImportFromAlias(node.module, Head(names), deps, internal_modules)
       IN  VisitNode(node, Tail(names), next, internal_modules)

\* ast.walk over the import nodes of one file
RECURSIVE Walk(_, _, _)
Walk(nodes, deps, internal_modules) ==
  IF nodes = <<>> THEN deps
  ELSE Walk(Tail(nodes),
            VisitNode(Head(nodes), Head(nodes).names, deps, internal_modules),
            internal_modules)

NoDeps == Deps({}, {})

\* faulty variant: the SyntaxError handler is missing
Caught_read_only(status) == status = "unreadable"

\* the two except clauses: `except Exception` around read_text and
\* `except SyntaxError` around ast.parse
Caught(status) == status \in {"unreadable", "syntax"}

\* a caught read error or SyntaxError returns (set(), set())
parse_imports(source, internal_modules) ==
  IF source.status # "ok" THEN NoDeps
  ELSE Walk(source.body, NoDeps, internal_modules)

\* ------------------------------------------------------------------ state
VARIABLES tree, text, pc, run, visited, modules, records, notes,
          prevModules, prevRecords

vars == << tree, text, pc, run, visited, modules, records, notes,
           prevModules, prevRecords >>

\* project_root.rglob("*.py")
Rglob == { f \in tree : MatchesPy(f) }

Eligible == { f \in Rglob : ~Skipped(f) }

Init ==
  \E t \in { s \in SUBSET Universe : Cardinality(s) <= MaxFiles } :
    \E rich \in RichTexts :
      /\ tree = t
      /\ text = [f \in t |-> IF f = F_pkg_a THEN rich ELSE FixedText(f)]
      /\ pc = "catalog"
      /\ run = 1
      /\ visited = {}
      /\ modules = <<>>
      /\ records = <<>>
      /\ notes = <<>>
      /\ prevModules = <<>>
      /\ prevRecords = <<>>

\* one iteration of the loop of get_internal_modules
CatalogStep(modules_, filepath) ==
  IF Skipped(filepath) THEN modules_
  ELSE DictSet(modules_, mod_name(filepath), note_id(filepath))

get_internal_modules(filepath) ==
  /\ pc = "catalog"
  /\ filepath \in Rglob \ visited
  /\ visited' = visited \cup {filepath}
  /\ modules' = CatalogStep(modules, filepath)
  /\ UNCHANGED << tree, text, pc, run, records, notes, prevModules, prevRecords >>

\* `return modules`; write_markdown_nodes starts its own traversal
CatalogBuilt ==
  /\ pc = "catalog"
  /\ visited = Rglob
  /\ pc' = "notes"
  /\ visited' = {}
  /\ UNCHANGED << tree, text, run, modules, records, notes, prevModules, prevRecords >>

\* the two `continue` statements of write_markdown_nodes
SkipFile(filepath) ==
  /\ pc = "notes"
  /\ filepath \in Rglob \ visited
  /\ Skipped(filepath)
  /\ visited' = visited \cup {filepath}
  /\ UNCHANGED << tree, text, pc, run, modules, records, notes, prevModules, prevRecords >>

\* link = internal_modules.get(dep, dep); a raw dep is a one-component path
Link(dep, internal_modules) == DictGet(internal_modules, dep, << dep >>)

\* the two dependency sections of a note (the sorted order of the lines is
\* not represented)
Note(deps, internal_modules) ==
  [links |-> { Link(dep, internal_modules) : dep \in deps.internal },
   external |-> deps.external]

\* the loop body of write_markdown_nodes for one file that is not skipped
WriteNote(filepath) ==
  /\ pc = "notes"
  /\ filepath \in Rglob \ visited
  /\ ~Skipped(filepath)
  /\ IF text[filepath].status # "ok" /\ ~Caught(text[filepath].status)
       THEN \* the exception leaves parse_imports and ends the run
            /\ pc' = "aborted"
            /\ UNCHANGED << visited, records, notes >>
       ELSE LET deps == parse_imports(text[filepath], modules)
            IN  /\ records' = (filepath :> deps) @@ records
                /\ notes' = (WithMdSuffix(filepath) :> Note(deps, modules)) @@ notes
                /\ visited' = visited \cup {filepath}
                /\ pc' = pc
  /\ UNCHANGED << tree, text, run, modules, prevModules, prevRecords >>

Finish ==
  /\ pc = "notes"
  /\ visited = Rglob
  /\ pc' = "done"
  /\ UNCHANGED << tree, text, run, visited, modules, records, notes,
                  prevModules, prevRecords >>

\* the program is run again on the unchanged project
Rerun ==
  /\ pc = "done"
  /\ run < MaxRuns
  /\ run' = run + 1
  /\ prevModules' = modules
  /\ prevRecords' = records
  /\ pc' = "catalog"
  /\ visited' = {}
  /\ modules' = <<>>
  /\ records' = <<>>
  /\ notes' = <<>>
  /\ UNCHANGED << tree, text >>

write_markdown_nodes ==
  \/ \E f \in Universe : get_internal_modules(f)
  \/ CatalogBuilt
  \/ \E f \in Universe : SkipFile(f)
  \/ \E f \in Universe : WriteNote(f)
  \/ Finish

Next == write_markdown_nodes

Spec == Init /\ [][Next]_vars

NextRerun == write_markdown_nodes \/ Rerun

SpecRerun == Init /\ [][NextRerun]_vars

\* ---------------------------------------------------------------- claims
\* The claims speak of eligibility, dotted names and matches in their own
\* words; these definitions restate them without the operators of the model.

\* .py extension, no .venv path component, file name not starting with "__"
ClaimEligible(f) ==
  /\ f[Len(f)][Len(f[Len(f)])] = "py"
  /\ \A i \in DOMAIN f : f[i] # <<"", "venv">>
  /\ f[Len(f)][1] \notin {"__init__", "__main__"}

EligibleFiles == { f \in tree : ClaimEligible(f) }

\* relative path without the .py extension
ClaimIdentity(f) ==
  [i \in DOMAIN f |-> IF i = Len(f) THEN SubSeq(f[i], 1, Len(f[i]) - 1) ELSE f[i]]

\* the note written for a document identity
ClaimNotePath(id) ==
  [i \in DOMAIN id |-> IF i = Len(id) THEN id[i] \o <<"md">> ELSE id[i]]

RECURSIVE DotJoin(_)
DotJoin(p) == IF Len(p) = 0 THEN <<>> ELSE DotJoin(SubSeq(p, 1, Len(p) - 1)) \o p[Len(p)]

CatalogKeys == { modules[i].key : i \in DOMAIN modules }

CatalogMap == { modules[i] : i \in DOMAIN modules }

\* key ends with "." + name
KeyEndsWith(key, name) ==
  /\ Len(key) > Len(name)
  /\ \A j \in 1..Len(name) : key[Len(key) - Len(name) + j] = name[j]

SuffixHits(name) == { i \in DOMAIN modules : KeyEndsWith(modules[i].key, name) }

Resolves(name) == name \in CatalogKeys \/ SuffixHits(name) # {}

\* exact key, else the first key in catalog order that ends with "." + name
Match(name) ==
  IF name \in CatalogKeys THEN name
  ELSE modules[CHOOSE i \in SuffixHits(name) : \A j \in SuffixHits(name) : i <= j].key

Internal(names) == [internal |-> names, external |-> {}]

External(names) == [internal |-> {}, external |-> names]

Resolved == pc \in {"notes", "done"}

\* get_internal_modules has just returned the catalog
CatalogReturned == pc = "notes" /\ visited = {}

\* C1: the two sets returned by parse_imports are disjoint.
C1_Disjoint ==
  \A f \in DOMAIN records : records[f].internal \cap records[f].external = {}

\* C2: `from . import sibling` inside pkg/a.py, with pkg.sibling a catalog
\* key, yields internal {pkg.sibling} and no external name.
C2_RelativeSibling ==
  ( /\ F_pkg_a \in DOMAIN records
    /\ text[F_pkg_a] = Ok(<< ImportFrom(<<>>, 1, << <<"sibling">> >>) >>)
    /\ <<"pkg", "sibling">> \in CatalogKeys )
  => records[F_pkg_a] = Internal({ <<"pkg", "sibling">> })

\* C3: every __init__.py outside .venv has a catalog key equal to the dotted
\* path of its parent directory (the root's name when the parent is the root),
\* mapped to the document identity of the __init__ file.
C3_InitializerKey ==
  Resolved =>
    \A f \in tree :
      ( /\ f[Len(f)] = <<"__init__", "py">>
        /\ \A i \in DOMAIN f : f[i] # <<"", "venv">> )
      => \E i \in DOMAIN modules :
           /\ modules[i].key = (IF Len(f) = 1 THEN RootName
                                ELSE DotJoin(SubSeq(f, 1, Len(f) - 1)))
           /\ modules[i].val = ClaimIdentity(f)

\* C4 as stated: every eligible file is the value of exactly one catalog
\* key, and the catalog has as many entries as there are eligible files.
C4_EveryFileOnce ==
  Resolved =>
    /\ \A f \in EligibleFiles :
         Cardinality({ i \in DOMAIN modules : modules[i].val = ClaimIdentity(f) }) = 1
    /\ Len(modules) = Cardinality(EligibleFiles)

ClaimDotted(f) == DotJoin(ClaimIdentity(f))

\* C4 amended: the catalog has exactly one entry per distinct dotted name of
\* the eligible files, each mapped to the document identity of an eligible
\* file of that name; a file is the value of at most one key, and of exactly
\* one when no other eligible file derives its dotted name.
C4_OneEntryPerDottedName ==
  CatalogReturned =>
    LET files == EligibleFiles
        named == [f \in files |-> ClaimDotted(f)]
        names == { named[f] : f \in files }
        held(f) == { i \in DOMAIN modules : modules[i].val = ClaimIdentity(f) }
    IN  /\ CatalogKeys = names
        /\ Len(modules) = Cardinality(names)
        /\ \A i \in DOMAIN modules :
             \E f \in files :
               named[f] = modules[i].key /\ ClaimIdentity(f) = modules[i].val
        /\ \A f \in files :
             /\ Cardinality(held(f)) <= 1
             /\ (\A g \in files : named[g] = named[f] => g = f) => Cardinality(held(f)) = 1

\* the catalog of a project where two of three eligible files derive the
\* same dotted name
C4_Witness ==
  /\ CatalogReturned
  /\ Cardinality(EligibleFiles) = 3
  /\ Len(modules) = 2

\* C5: no name in external_deps resolves to a project file by the
\* internal-match rule.
C5_ExternalUnresolved ==
  \A f \in DOMAIN records : \A n \in records[f].external : ~Resolves(n)

\* what one `from M import A` clause records, M non-empty and A not "*"
FromClause(M, A) ==
  IF Resolves(M \o A) THEN Internal({ Match(M \o A) })
  ELSE IF Resolves(M) THEN Internal({ Match(M) })
  ELSE External({ << M[1] >> })

IsFromClause(source) ==
  /\ source.status = "ok"
  /\ Len(source.body) = 1
  /\ source.body[1].kind = "ImportFrom"
  /\ source.body[1].module # <<>>
  /\ \A k \in DOMAIN source.body[1].names : source.body[1].names[k] # <<"*">>

IsPlainImport(source) ==
  /\ source.status = "ok"
  /\ Len(source.body) = 1
  /\ source.body[1].kind = "Import"
  /\ Len(source.body[1].names) = 1

\* C7: a plain `import X` records X when X is a catalog key, else the first
\* key in catalog order that ends with "." + X, else the text of X before
\* its first dot as external.
C7_PlainImport ==
  \A f \in DOMAIN records :
    IsPlainImport(text[f]) =>
      LET X == text[f].body[1].names[1]
      IN  records[f] =
            IF X \in CatalogKeys THEN Internal({ X })
            ELSE IF SuffixHits(X) # {} THEN Internal({ Match(X) })
            ELSE External({ << X[1] >> })

\* `import sibling` with two keys ending in .sibling and none equal to it
C7_Witness ==
  \E f \in DOMAIN records :
    /\ IsPlainImport(text[f])
    /\ text[f].body[1].names[1] = <<"sibling">>
    /\ Cardinality(SuffixHits(<<"sibling">>)) = 2
    /\ <<"sibling">> \notin CatalogKeys
    /\ records[f] = Internal({ modules[1].key })

\* what the resolver returns for a source that parsed, whatever became of
\* the other files
RECURSIVE Fold(_, _, _)
Fold(nodes, deps, mods) ==
  IF nodes = <<>> THEN deps
  ELSE Fold(Tail(nodes), VisitNode(Head(nodes), Head(nodes).names, deps, mods), mods)

C9_Deterministic ==
  (pc = "done" /\ run > 1) =>
    /\ CatalogMap = { prevModules[i] : i \in DOMAIN prevModules }
    /\ records = prevRecords

\* C10: every internal dependency is a catalog key, and every rendered link
\* is the document identity of an eligible file whose note is written in the
\* same run.
C10_LinksResolve ==
  /\ \A f \in DOMAIN records : records[f].internal \subseteq CatalogKeys
  /\ pc = "done" =>
       \A n \in DOMAIN notes : \A link \in notes[n].links :
         /\ \E g \in EligibleFiles : link = ClaimIdentity(g)
         /\ ClaimNotePath(link) \in DOMAIN notes

\* a finished run with a note that links to another file's note
C10_Witness ==
  /\ pc = "done"
  /\ \E n \in DOMAIN notes : \E link \in notes[n].links : ClaimNotePath(link) # n

====
